---------------------------- MODULE Spec2Model ----------------------------
(* A model of the two Dashboard components of HicaroDev/finan-02:          *)
(*   "pages"  : src/src/pages/Dashboard.tsx (month/year selector)           *)
(*   "legacy" : src/src/lib/supabase.ts, lines 48-278 (current month)       *)
(* and of the remote data gateway and session provider they consume.        *)
(*                                                                          *)
(* Representation.                                                          *)
(*   - An ISO date string "YYYY-MM-DD" is the tuple <<y, m, d>>; the        *)
(*     gateway compares such strings lexically (IsoLeq).                    *)
(*   - A decimal string such as "11" is the digit sequence <<1, 1>>.        *)
(*   - A JavaScript value is a record [k, n]: k = "num" (the number n),     *)
(*     "null", "nan" or "str" (a non-numeric, non-empty string).            *)
(*   - A React event handler runs together with the effect it triggers:     *)
(*     the closure of fetchDashboardData captures the user and the filters  *)
(*     of the render that started it.                                       *)
(*   - The code between two awaits is one step: no other handler runs       *)
(*     between the setters that follow the second await.                    *)
(*   - The gateway answers a query with its rows, filtered, ordered and     *)
(*     limited as the query asks, or with an error that carries a message;  *)
(*     filterEnforced = FALSE is a backend that returns the rows of every   *)
(*     owner.                                                               *)
EXTENDS Integers, Sequences, FiniteSets, TLC

VARIABLES
    variant,      \* which Dashboard component is mounted: "pages" | "legacy"
    tz,           \* the client's offset from UTC in minutes (local = UTC + tz)
    now,          \* new Date(): [date |-> <<y,m,d>>, s |-> second of the day], UTC
    db,           \* the remote tables: [transacoes, lembretes], sets of rows
    filterEnforced, \* whether the backend applies the equality filter on userid
    user,         \* useAuth().user: NoUser or a user id
    filterMonth,  \* useState filterMonth (a decimal string)
    filterYear,   \* useState filterYear (a decimal string)
    loading,      \* useState loading
    stats,        \* useState stats
    transacoes,   \* useState transacoes ("pages" only)
    lembretes,    \* useState lembretes ("pages" only)
    calls,        \* the fetchDashboardData calls started so far, by number
    queries,      \* the queries the gateway has not answered yet
    toasts,       \* the descriptions of the toasts raised, in order
    issued,       \* history: the number of queries issued to the gateway
    shownFor,     \* history: the call that last wrote the state, its responses
    lastError,    \* history: the last gateway error, [call, table, message]
    hadUser,      \* history: the session provider has supplied a user
    mounted       \* the component's first effect has run

vars == <<variant, tz, now, db, filterEnforced, user, filterMonth, filterYear, loading, stats,
          transacoes, lembretes, calls, queries, toasts, issued, shownFor,
          lastError, hadUser, mounted>>

-----------------------------------------------------------------------------
(* Bounds of the model *)

MaxCalls == 2
MaxRows == 6

-----------------------------------------------------------------------------
(* JavaScript values and the arithmetic the aggregation uses *)

JsNum(n) == [k |-> "num", n |-> n]
JsNull == [k |-> "null", n |-> 0]
JsNaN == [k |-> "nan", n |-> 0]
JsStr == [k |-> "str", n |-> 0]

\* Boolean(v): null, 0, NaN are falsy; a non-empty string is truthy.
Truthy(v) == \/ v.k = "str"
             \/ v.k = "num" /\ v.n # 0

\* v || 0
OrZero(v) == IF Truthy(v) THEN v ELSE JsNum(0)

\* Number(v): Number(null) = 0, Number('abc') = NaN.
Number(v) == CASE v.k = "num" -> v
               [] v.k = "null" -> JsNum(0)
               [] OTHER -> JsNaN

\* a + b: with a string operand the result is the concatenation (a string that
\* still holds the non-numeric text); null counts as 0; NaN absorbs.
JsAdd(a, b) == IF a.k = "str" \/ b.k = "str" THEN JsStr
               ELSE IF Number(a).k = "nan" \/ Number(b).k = "nan" THEN JsNaN
               ELSE JsNum(Number(a).n + Number(b).n)

\* a - b: both operands go through Number().
JsSub(a, b) == IF Number(a).k = "nan" \/ Number(b).k = "nan" THEN JsNaN
               ELSE JsNum(Number(a).n - Number(b).n)

-----------------------------------------------------------------------------
(* Decimal strings: Number.prototype.toString and parseInt *)

RECURSIVE NumToString(_)
NumToString(n) == IF n < 10 THEN <<n>> ELSE Append(NumToString(n \div 10), n % 10)

RECURSIVE ParseInt(_)
ParseInt(s) == IF Len(s) = 0 THEN 0
               ELSE 10 * ParseInt(SubSeq(s, 1, Len(s) - 1)) + s[Len(s)]

-----------------------------------------------------------------------------
(* Calendar arithmetic of Date *)

IsLeap(y) == (y % 4 = 0 /\ y % 100 # 0) \/ y % 400 = 0

\* m is 1..12
DaysInMonth(y, m) == IF m = 2 THEN (IF IsLeap(y) THEN 29 ELSE 28)
                     ELSE IF m \in {4, 6, 9, 11} THEN 30 ELSE 31

PrevDay(dt) == IF dt[3] > 1 THEN <<dt[1], dt[2], dt[3] - 1>>
               ELSE IF dt[2] > 1 THEN <<dt[1], dt[2] - 1, DaysInMonth(dt[1], dt[2] - 1)>>
               ELSE <<dt[1] - 1, 12, 31>>

NextDay(dt) == IF dt[3] < DaysInMonth(dt[1], dt[2]) THEN <<dt[1], dt[2], dt[3] + 1>>
               ELSE IF dt[2] < 12 THEN <<dt[1], dt[2] + 1, 1>>
               ELSE <<dt[1] + 1, 1, 1>>

\* new Date(year, monthIndex, day, h, mi, s) in local time, for day in {0, 1}:
\* a monthIndex of 12 is January of the next year, day 0 is the last day of
\* the month before.
NewDate(year, monthIndex, day, secs) ==
    LET y1 == year + (monthIndex \div 12)
        m1 == (monthIndex % 12) + 1
        first == <<y1, m1, 1>>
    IN [date |-> IF day = 0 THEN PrevDay(first) ELSE first, s |-> secs]

\* A local time as a UTC time: UTC = local - tz.
ToUTC(local, off) ==
    LET s == local.s - off * 60
    IN IF s < 0 THEN [date |-> PrevDay(local.date), s |-> s + 86400]
       ELSE IF s >= 86400 THEN [date |-> NextDay(local.date), s |-> s - 86400]
       ELSE [date |-> local.date, s |-> s]

\* A UTC time as a local time.
ToLocal(utc, off) == ToUTC(utc, 0 - off)

\* date.toISOString().split('T')[0] of a local Date
ToISODate(local, off) == ToUTC(local, off).date

\* Lexical order of "YYYY-MM-DD" strings
IsoLeq(a, b) == \/ a[1] < b[1]
                \/ a[1] = b[1] /\ a[2] < b[2]
                \/ a[1] = b[1] /\ a[2] = b[2] /\ a[3] <= b[3]

-----------------------------------------------------------------------------
(* The session provider and the remote tables *)

NoUser == "none"

\* The users that sign in on this client; the tables hold rows of "u2" as well
Users == {"u1"}

Transacao(id, created, uid, tipo, valor, quando) ==
    [id |-> id, created_at |-> created, userid |-> uid, tipo |-> tipo,
     valor |-> valor, quando |-> quando]

Lembrete(id, uid, valor, data) ==
    [id |-> id, userid |-> uid, valor |-> valor, data |-> data]

\* The tables behind the concurrency runs: rows of two owners around April
\* 2024 and December 2023, one with a null and one with a non-numeric valor.
SeedTransacoes ==
    { Transacao(1, 1, "u1", "receita", JsNum(3), <<2024, 4, 30>>),
      Transacao(2, 2, "u1", "despesa", JsStr, <<2024, 4, 10>>),
      Transacao(3, 3, "u2", "receita", JsNum(2), <<2024, 4, 15>>),
      Transacao(4, 4, "u1", "despesa", JsNull, <<2024, 5, 1>>),
      Transacao(5, 5, "u1", "receita", JsNum(1), <<2023, 12, 31>>),
      Transacao(6, 6, "u2", "despesa", JsNum(1), <<2023, 12, 1>>) }

SeedLembretes ==
    { Lembrete(1, "u1", JsNum(1), <<2024, 4, 20>>),
      Lembrete(2, "u2", JsNum(2), <<2024, 4, 30>>),
      Lembrete(3, "u1", JsNum(4), <<2024, 5, 1>>),
      Lembrete(4, "u1", JsNum(5), <<2023, 12, 31>>) }

SeedDb == [transacoes |-> SeedTransacoes, lembretes |-> SeedLembretes]

\* The tables behind the truncation runs: up to MaxRows transactions inserted
\* one after the other (created_at grows with id), each of one of three kinds.
RowKinds ==
    { [userid |-> "u1", quando |-> <<2024, 4, 5>>],
      [userid |-> "u1", quando |-> <<2024, 4, 20>>],
      [userid |-> "u2", quando |-> <<2024, 4, 10>>] }

TableOf(kinds) ==
    { Transacao(i, i, kinds[i].userid, IF i % 2 = 0 THEN "receita" ELSE "despesa",
                JsNum(i), kinds[i].quando) : i \in DOMAIN kinds }

GeneratedDbs ==
    { [transacoes |-> TableOf(kinds), lembretes |-> SeedLembretes] :
        kinds \in UNION { [1..n -> RowKinds] : n \in 0..MaxRows } }

\* The messages of the gateway's errors
ErrorMessages == {"permission denied", "Failed to fetch"}

-----------------------------------------------------------------------------
(* The remote data gateway: eq, gte, lte, order, limit *)

DateKey(d) == d[1] * 10000 + d[2] * 100 + d[3]

\* Every sequence of the rows of S in ascending order of key (a function on S);
\* rows with equal keys come in any order.
RECURSIVE SortedSeqs(_, _)
SortedSeqs(S, key) ==
    IF S = {} THEN {<<>>}
    ELSE UNION { { <<r>> \o rest : rest \in SortedSeqs(S \ {r}, key) } :
                 r \in { x \in S : \A y \in S : key[x] <= key[y] } }

Min(a, b) == IF a <= b THEN a ELSE b

\* .limit(n); n = 0 stands for a query without limit
Limit(rows, n) == IF n = 0 THEN rows ELSE SubSeq(rows, 1, Min(n, Len(rows)))

\* A query is [call, table, userid, col, gte, lte, order, asc, limit]; lte is
\* <<>> (no upper bound) or <<date>>. The rows a query selects; enforced is
\* whether the equality filter on userid is applied by the backend.
Selected(q, enforced) ==
    { r \in db[q.table] :
        /\ enforced => r.userid = q.userid
        /\ IsoLeq(q.gte, r[q.col])
        /\ q.lte # <<>> => IsoLeq(r[q.col], q.lte[1]) }

OrderKey(q, S) ==
    [r \in S |->
        LET k == IF q.order = "created_at" THEN r.created_at ELSE DateKey(r[q.order])
        IN IF q.asc THEN k ELSE 0 - k]

Rows(q, enforced) ==
    { Limit(s, q.limit) :
        s \in SortedSeqs(Selected(q, enforced), OrderKey(q, Selected(q, enforced))) }

\* What the gateway may answer: {data, error: null} or {data: null, error}
Responses(q) ==
    { [ok |-> TRUE, data |-> rows, message |-> ""] : rows \in Rows(q, filterEnforced) }
    \cup { [ok |-> FALSE, data |-> <<>>, message |-> m] : m \in ErrorMessages }

-----------------------------------------------------------------------------
(* src/src/pages/Dashboard.tsx: the date range and the two queries *)

\* new Date(parseInt(filterYear), parseInt(filterMonth), 1)
StartDate(fy, fm) == NewDate(ParseInt(fy), ParseInt(fm), 1, 0)

\* new Date(parseInt(filterYear), parseInt(filterMonth) + 1, 0, 23, 59, 59)
EndDate(fy, fm) == NewDate(ParseInt(fy), ParseInt(fm) + 1, 0, 23 * 3600 + 59 * 60 + 59)

PagesTransacoesQuery(c, call) ==
    [call |-> c, table |-> "transacoes", userid |-> call.uid, col |-> "quando",
     gte |-> ToISODate(StartDate(call.year, call.month), tz),
     lte |-> <<ToISODate(EndDate(call.year, call.month), tz)>>,
     order |-> "quando", asc |-> FALSE, limit |-> 0]

PagesLembretesQuery(c, call) ==
    [call |-> c, table |-> "lembretes", userid |-> call.uid, col |-> "data",
     gte |-> ToISODate(StartDate(call.year, call.month), tz),
     lte |-> <<ToISODate(EndDate(call.year, call.month), tz)>>,
     order |-> "data", asc |-> TRUE, limit |-> 0]

(* src/src/lib/supabase.ts: the current month and the two queries *)

\* new Date().toISOString().slice(0, 7), as <<y, m>>
CurrentMonth == <<now.date[1], now.date[2]>>

LegacyTransacoesQuery(c, call) ==
    [call |-> c, table |-> "transacoes", userid |-> call.uid, col |-> "quando",
     gte |-> <<CurrentMonth[1], CurrentMonth[2], 1>>,
     lte |-> << <<CurrentMonth[1], CurrentMonth[2], 31>> >>,
     order |-> "created_at", asc |-> FALSE, limit |-> 0]

LegacyLembretesQuery(c, call) ==
    [call |-> c, table |-> "lembretes", userid |-> call.uid, col |-> "data",
     gte |-> now.date, lte |-> <<>>,
     order |-> "data", asc |-> TRUE, limit |-> 5]

TransacoesQuery(c, call) ==
    IF variant = "pages" THEN PagesTransacoesQuery(c, call)
    ELSE LegacyTransacoesQuery(c, call)

LembretesQuery(c, call) ==
    IF variant = "pages" THEN PagesLembretesQuery(c, call)
    ELSE LegacyLembretesQuery(c, call)

-----------------------------------------------------------------------------
(* The aggregation *)

\* rows.filter(t => t.tipo === tipo)
RECURSIVE FilterTipo(_, _)
FilterTipo(rows, tipo) ==
    IF rows = <<>> THEN <<>>
    ELSE (IF Head(rows).tipo = tipo THEN <<Head(rows)>> ELSE <<>>)
         \o FilterTipo(Tail(rows), tipo)

\* Dashboard.tsx: .reduce((sum, t) => sum + (t.valor || 0), 0)
RECURSIVE PagesReduce(_, _)
PagesReduce(rows, sum) ==
    IF rows = <<>> THEN sum
    ELSE PagesReduce(Tail(rows), JsAdd(sum, OrZero(Head(rows).valor)))

\* Dashboard.tsx: transacoes?.filter(...).reduce(...) || 0
PagesTotal(rows, tipo) == OrZero(PagesReduce(FilterTipo(rows, tipo), JsNum(0)))

\* supabase.ts: .reduce((acc, t) => acc + (Number(t.valor) || 0), 0)
RECURSIVE LegacyReduce(_, _)
LegacyReduce(rows, acc) ==
    IF rows = <<>> THEN acc
    ELSE LegacyReduce(Tail(rows), JsAdd(acc, OrZero(Number(Head(rows).valor))))

LegacyTotal(rows, tipo) == LegacyReduce(FilterTipo(rows, tipo), JsNum(0))

\* Dashboard.tsx: newStats
PagesStats(tx, lem) ==
    [totalReceitas |-> PagesTotal(tx, "receita"),
     totalDespesas |-> PagesTotal(tx, "despesa"),
     saldo |-> JsSub(PagesTotal(tx, "receita"), PagesTotal(tx, "despesa")),
     transacoesCount |-> Len(tx),
     lembretesCount |-> Len(lem)]

\* A variant of the slice below that keeps every row
TransacoesRecentesAll(tx) == tx

\* supabase.ts: transacoes?.slice(0, 5) || []
TransacoesRecentes(tx) == SubSeq(tx, 1, Min(5, Len(tx)))

\* supabase.ts: the object given to setStats
LegacyStats(tx, lem) ==
    [totalReceitas |-> LegacyTotal(tx, "receita"),
     totalDespesas |-> LegacyTotal(tx, "despesa"),
     saldo |-> JsSub(LegacyTotal(tx, "receita"), LegacyTotal(tx, "despesa")),
     transacoesRecentes |-> TransacoesRecentes(tx),
     lembretesProximos |-> lem]

\* useState's initial stats
InitialStats(v) ==
    IF v = "pages"
    THEN [totalReceitas |-> JsNum(0), totalDespesas |-> JsNum(0), saldo |-> JsNum(0),
          transacoesCount |-> 0, lembretesCount |-> 0]
    ELSE [totalReceitas |-> JsNum(0), totalDespesas |-> JsNum(0), saldo |-> JsNum(0),
          transacoesRecentes |-> <<>>, lembretesProximos |-> <<>>]

\* The displayed state as one value
Display == [stats |-> stats, transacoes |-> transacoes, lembretes |-> lembretes]

\* Both queries succeeded: setTransacoes, setLembretes, setStats ("pages"),
\* setStats ("legacy").
OnSuccess(d, tx, lem) ==
    IF variant = "pages"
    THEN [stats |-> PagesStats(tx, lem), transacoes |-> tx, lembretes |-> lem]
    ELSE [d EXCEPT !.stats = LegacyStats(tx, lem)]

\* The transactions query failed: the throw precedes every setter.
OnTransacoesError(d) == d

\* A variant of the definition below in which setTransacoes precedes the
\* reminders query
OnLembretesErrorPartial(d, tx) ==
    IF variant = "pages" THEN [d EXCEPT !.transacoes = tx] ELSE d

\* The reminders query failed: the throw precedes every setter.
OnLembretesError(d, tx) == d

\* description: error.message || "Erro desconhecido ..." ("pages"),
\* description: error.message ("legacy")
Fallback == "Erro desconhecido ao carregar dados do dashboard"

\* A variant of the definition below that drops the gateway's message
ToastDescriptionUnknown(message) == Fallback

ToastDescription(message) ==
    IF variant = "pages" /\ message = "" THEN Fallback ELSE message

\* The branch the component renders
Render ==
    IF loading THEN "loading"
    ELSE IF variant = "pages" /\ user = NoUser THEN "noIdentity"
    ELSE "summary"

-----------------------------------------------------------------------------
(* The state machine *)

\* The client offsets from UTC, in minutes: Brasilia, UTC, Central Europe
TimeZones == {0 - 180, 0, 60}

\* The instant the component is mounted at
Nows == { [date |-> <<2024, 4, 30>>, s |-> 22 * 3600] }

\* The values the month and year selectors offer
MonthChoices == {<<3>>, <<1, 1>>}
YearChoices == {<<2, 0, 2, 3>>, <<2, 0, 2, 4>>}

\* new Date().getMonth().toString() and new Date().getFullYear().toString()
InitialMonth(t, off) == NumToString(ToLocal(t, off).date[2] - 1)
InitialYear(t, off) == NumToString(ToLocal(t, off).date[1])

NoCall == [call |-> 0, uid |-> NoUser, month |-> <<>>, year |-> <<>>,
           tx |-> <<>>, lem |-> <<>>]

NoError == [call |-> 0, table |-> "", message |-> ""]

\* The state of a component after its first render, before its first effect
Constructed ==
    /\ mounted = FALSE
    /\ user = NoUser
    /\ filterMonth = InitialMonth(now, tz)
    /\ filterYear = InitialYear(now, tz)
    /\ loading = TRUE
    /\ stats = InitialStats(variant)
    /\ transacoes = <<>>
    /\ lembretes = <<>>
    /\ calls = <<>>
    /\ queries = {}
    /\ toasts = <<>>
    /\ issued = 0
    /\ shownFor = NoCall
    /\ lastError = NoError
    /\ hadUser = FALSE

\* The legacy component reads no local time: one offset stands for all.
Init ==
    /\ variant \in {"pages", "legacy"}
    /\ tz \in IF variant = "pages" THEN TimeZones ELSE {0}
    /\ now \in Nows
    /\ db = SeedDb
    /\ filterEnforced \in BOOLEAN
    /\ Constructed

SetDisplay(d) ==
    /\ stats' = d.stats
    /\ transacoes' = d.transacoes
    /\ lembretes' = d.lembretes

\* A finished call keeps its outcome only
Finished(outcome) ==
    [uid |-> NoUser, month |-> <<>>, year |-> <<>>, pc |-> "done", tx |-> <<>>,
     outcome |-> outcome]

\* A variant of the guard below that always calls fetchDashboardData
EffectGuardAlways(u) == TRUE

\* useEffect: if (user?.id) ("pages"), if (user) ("legacy")
EffectGuard(u) == u # NoUser

\* fetchDashboardData up to its first await, with the user and the filters of
\* the render whose effect calls it
FetchDashboardData(u, fm, fy) ==
    IF variant = "pages" /\ u = NoUser
    THEN /\ loading' = FALSE
         /\ UNCHANGED <<calls, queries, issued>>
    ELSE LET c == Len(calls) + 1
             call == [uid |-> u, month |-> fm, year |-> fy, pc |-> "awaitTx",
                      tx |-> <<>>, outcome |-> "pending"]
         IN /\ Len(calls) < MaxCalls
            /\ loading' = TRUE
            /\ calls' = Append(calls, call)
            /\ queries' = queries \cup {TransacoesQuery(c, call)}
            /\ issued' = issued + 1

\* The effect that runs after a render in which a dependency changed
RunEffect(u, fm, fy) ==
    IF EffectGuard(u) THEN FetchDashboardData(u, fm, fy)
    ELSE UNCHANGED <<calls, queries, issued, loading>>

\* The first run of the effect, after the first render
Mount ==
    /\ ~mounted
    /\ mounted' = TRUE
    /\ RunEffect(user, filterMonth, filterYear)
    /\ UNCHANGED <<variant, tz, now, db, filterEnforced, user, filterMonth, filterYear,
                   stats, transacoes, lembretes, toasts, shownFor, lastError, hadUser>>

\* The session provider supplies a user
Login(u) ==
    /\ mounted
    /\ user = NoUser
    /\ user' = u
    /\ hadUser' = TRUE
    /\ RunEffect(u, filterMonth, filterYear)
    /\ UNCHANGED <<variant, tz, now, db, filterEnforced, filterMonth, filterYear, stats,
                   transacoes, lembretes, toasts, shownFor, lastError, mounted>>

\* The session provider withdraws the user
Logout ==
    /\ mounted
    /\ user # NoUser
    /\ user' = NoUser
    /\ RunEffect(NoUser, filterMonth, filterYear)
    /\ UNCHANGED <<variant, tz, now, db, filterEnforced, filterMonth, filterYear, stats, transacoes,
                   lembretes, toasts, shownFor, lastError, hadUser, mounted>>

\* DashboardFilters is rendered in the loading and the summary branch
SetFilterMonth(m) ==
    /\ mounted
    /\ variant = "pages"
    /\ Render # "noIdentity"
    /\ m # filterMonth
    /\ filterMonth' = m
    /\ RunEffect(user, m, filterYear)
    /\ UNCHANGED <<variant, tz, now, db, filterEnforced, user, filterYear, stats, transacoes,
                   lembretes, toasts, shownFor, lastError, hadUser, mounted>>

SetFilterYear(y) ==
    /\ mounted
    /\ variant = "pages"
    /\ Render # "noIdentity"
    /\ y # filterYear
    /\ filterYear' = y
    /\ RunEffect(user, filterMonth, y)
    /\ UNCHANGED <<variant, tz, now, db, filterEnforced, user, filterMonth, stats, transacoes,
                   lembretes, toasts, shownFor, lastError, hadUser, mounted>>

\* catch: the toast; finally: setLoading(false)
Catch(c, table, message, d) ==
    /\ toasts' = Append(toasts, ToastDescription(message))
    /\ loading' = FALSE
    /\ SetDisplay(d)
    /\ calls' = [calls EXCEPT ![c] = Finished("error")]
    /\ lastError' = [call |-> c, table |-> table, message |-> message]

\* The transactions query of call c returns rows: the reminders query is issued
TransacoesFetched(c) ==
    /\ c \in DOMAIN calls
    /\ calls[c].pc = "awaitTx"
    /\ \E r \in Responses(TransacoesQuery(c, calls[c])) :
        /\ r.ok
        /\ calls' = [calls EXCEPT ![c].pc = "awaitLem", ![c].tx = r.data]
    /\ queries' = (queries \ {TransacoesQuery(c, calls[c])})
                    \cup {LembretesQuery(c, calls[c])}
    /\ issued' = issued + 1
    /\ UNCHANGED <<variant, tz, now, db, filterEnforced, user, filterMonth, filterYear, loading, stats,
                   transacoes, lembretes, toasts, shownFor, lastError, hadUser, mounted>>

\* The transactions query of call c returns an error
TransacoesFailed(c) ==
    /\ c \in DOMAIN calls
    /\ calls[c].pc = "awaitTx"
    /\ \E r \in Responses(TransacoesQuery(c, calls[c])) :
        /\ ~r.ok
        /\ Catch(c, "transacoes", r.message, OnTransacoesError(Display))
    /\ queries' = queries \ {TransacoesQuery(c, calls[c])}
    /\ UNCHANGED <<variant, tz, now, db, filterEnforced, user, filterMonth, filterYear, issued,
                   shownFor, hadUser, mounted>>

\* The reminders query of call c returns rows: the state is set
LembretesFetched(c) ==
    /\ c \in DOMAIN calls
    /\ calls[c].pc = "awaitLem"
    /\ \E r \in Responses(LembretesQuery(c, calls[c])) :
        /\ r.ok
        /\ SetDisplay(OnSuccess(Display, calls[c].tx, r.data))
        /\ shownFor' = [call |-> c, uid |-> calls[c].uid, month |-> calls[c].month,
                        year |-> calls[c].year, tx |-> calls[c].tx, lem |-> r.data]
    /\ calls' = [calls EXCEPT ![c] = Finished("ok")]
    /\ queries' = queries \ {LembretesQuery(c, calls[c])}
    /\ loading' = FALSE
    /\ UNCHANGED <<variant, tz, now, db, filterEnforced, user, filterMonth, filterYear, issued,
                   toasts, lastError, hadUser, mounted>>

\* The reminders query of call c returns an error
LembretesFailed(c) ==
    /\ c \in DOMAIN calls
    /\ calls[c].pc = "awaitLem"
    /\ \E r \in Responses(LembretesQuery(c, calls[c])) :
        /\ ~r.ok
        /\ Catch(c, "lembretes", r.message, OnLembretesError(Display, calls[c].tx))
    /\ queries' = queries \ {LembretesQuery(c, calls[c])}
    /\ UNCHANGED <<variant, tz, now, db, filterEnforced, user, filterMonth, filterYear, issued,
                   shownFor, hadUser, mounted>>

Next ==
    \/ Mount
    \/ \E u \in Users : Login(u)
    \/ Logout
    \/ \E m \in MonthChoices : SetFilterMonth(m)
    \/ \E y \in YearChoices : SetFilterYear(y)
    \/ \E c \in 1..MaxCalls : TransacoesFetched(c)
    \/ \E c \in 1..MaxCalls : TransacoesFailed(c)
    \/ \E c \in 1..MaxCalls : LembretesFetched(c)
    \/ \E c \in 1..MaxCalls : LembretesFailed(c)

Spec == Init /\ [][Next]_vars

\* One fetch of the legacy component over every table of up to MaxRows rows
InitRecent ==
    /\ variant = "legacy"
    /\ tz = 0
    /\ now \in Nows
    /\ db \in GeneratedDbs
    /\ filterEnforced \in BOOLEAN
    /\ Constructed

NextRecent ==
    \/ Mount
    \/ \E u \in Users : Login(u)
    \/ \E c \in 1..MaxCalls : TransacoesFetched(c)
    \/ \E c \in 1..MaxCalls : TransacoesFailed(c)
    \/ \E c \in 1..MaxCalls : LembretesFetched(c)
    \/ \E c \in 1..MaxCalls : LembretesFailed(c)

SpecRecent == InitRecent /\ [][NextRecent]_vars

-----------------------------------------------------------------------------
(* The properties *)

AllDone == \A c \in DOMAIN calls : calls[c].pc = "done"

InFlight == { c \in DOMAIN calls : calls[c].pc # "done" }

\* The sum of valor over the rows of one tipo, a null or non-numeric valor
\* counting 0
RECURSIVE SumValor(_, _)
SumValor(rows, tipo) ==
    IF rows = <<>> THEN 0
    ELSE (IF Head(rows).tipo = tipo /\ Head(rows).valor.k = "num"
          THEN Head(rows).valor.n ELSE 0)
         + SumValor(Tail(rows), tipo)

\* The rows of one owner
RECURSIVE OwnRows(_, _)
OwnRows(rows, uid) ==
    IF rows = <<>> THEN <<>>
    ELSE (IF Head(rows).userid = uid THEN <<Head(rows)>> ELSE <<>>)
         \o OwnRows(Tail(rows), uid)

IsPrefix(r, t) == Len(r) <= Len(t) /\ \A i \in 1..Len(r) : r[i] = t[i]

\* The lists on display
ShownTransacoes == IF variant = "pages" THEN transacoes ELSE stats.transacoesRecentes
ShownLembretes == IF variant = "pages" THEN lembretes ELSE stats.lembretesProximos

\* C1: once every fetch has resolved and the fetch for the selected user,
\* month and year succeeded, the displayed state is the one that fetch
\* produced, whatever the order in which overlapping fetches resolved.
StaleResponseDiscarded ==
    (/\ user # NoUser
     /\ calls # <<>>
     /\ AllDone
     /\ calls[Len(calls)].outcome = "ok")
    => /\ shownFor.uid = user
       /\ shownFor.month = filterMonth
       /\ shownFor.year = filterYear

\* C2: a call that ends with an error leaves stats, transacoes and lembretes
\* as they were; a call that ends with success replaces them together by the
\* values computed from its two responses; nothing else changes them.
NoPartialUpdate ==
    [][ /\ \A c \in DOMAIN calls :
              (calls[c].pc # "done" /\ calls'[c].pc = "done") =>
                  IF calls'[c].outcome = "error"
                  THEN /\ stats' = stats
                       /\ transacoes' = transacoes
                       /\ lembretes' = lembretes
                  ELSE /\ calls[c].pc = "awaitLem"
                       /\ shownFor'.call = c
                       /\ IF variant = "pages"
                          THEN /\ transacoes' = calls[c].tx
                               /\ lembretes' = shownFor'.lem
                               /\ stats'.transacoesCount = Len(calls[c].tx)
                               /\ stats'.lembretesCount = Len(shownFor'.lem)
                               /\ stats'.totalReceitas = PagesTotal(calls[c].tx, "receita")
                               /\ stats'.totalDespesas = PagesTotal(calls[c].tx, "despesa")
                          ELSE /\ IsPrefix(stats'.transacoesRecentes, calls[c].tx)
                               /\ stats'.lembretesProximos = shownFor'.lem
                               /\ stats'.totalReceitas = LegacyTotal(calls[c].tx, "receita")
                               /\ stats'.totalDespesas = LegacyTotal(calls[c].tx, "despesa")
                       /\ stats'.saldo = JsSub(stats'.totalReceitas, stats'.totalDespesas)
        /\ (stats' # stats \/ transacoes' # transacoes \/ lembretes' # lembretes)
              => \E c \in DOMAIN calls :
                    /\ calls[c].pc = "awaitLem"
                    /\ calls'[c].outcome = "ok" ]_vars

\* C2, witness: a reminders query has failed after an earlier call had put
\* transactions on display.
NoPartialUpdateWitness ==
    /\ variant = "pages"
    /\ lastError.table = "lembretes"
    /\ shownFor.call # 0
    /\ lastError.call > shownFor.call
    /\ transacoes # <<>>

\* C3: as long as the session provider has supplied no user, no query has
\* been issued, the summary holds its initial zero state and no toast has
\* been raised.
NoIdentityQuiescence ==
    ~hadUser =>
        /\ issued = 0
        /\ queries = {}
        /\ calls = <<>>
        /\ stats = InitialStats(variant)
        /\ transacoes = <<>>
        /\ lembretes = <<>>
        /\ toasts = <<>>

\* C3, witness: the effect has run, and a filter has changed, with no user.
NoIdentityQuiescenceWitness ==
    /\ mounted
    /\ ~hadUser
    /\ user = NoUser
    /\ filterMonth # InitialMonth(now, tz)

\* C4: with no user and no fetch pending, the mounted dashboard shows the
\* login prompt, not the loading state.
NoIdentityReported ==
    (mounted /\ variant = "pages" /\ user = NoUser /\ AllDone)
        => Render = "noIdentity"

\* C5: after a successful fetch returning T the totals are the sums of valor
\* over the receita and the despesa rows of T, a null or non-numeric valor
\* counting 0, and saldo is their difference.
TotalsCorrect ==
    shownFor.call # 0 =>
        /\ stats.totalReceitas = JsNum(SumValor(shownFor.tx, "receita"))
        /\ stats.totalDespesas = JsNum(SumValor(shownFor.tx, "despesa"))
        /\ stats.saldo = JsNum(SumValor(shownFor.tx, "receita")
                               - SumValor(shownFor.tx, "despesa"))

\* C6: the lists and totals produced for an owner hold no record of another
\* owner, even when the gateway's response holds records of both.
OwnerIsolation ==
    shownFor.call # 0 =>
        /\ \A i \in DOMAIN ShownTransacoes : ShownTransacoes[i].userid = shownFor.uid
        /\ \A i \in DOMAIN ShownLembretes : ShownLembretes[i].userid = shownFor.uid
        /\ LET own == OwnRows(shownFor.tx, shownFor.uid)
           IN IF variant = "pages"
              THEN /\ stats.totalReceitas = PagesTotal(own, "receita")
                   /\ stats.totalDespesas = PagesTotal(own, "despesa")
              ELSE /\ stats.totalReceitas = LegacyTotal(own, "receita")
                   /\ stats.totalDespesas = LegacyTotal(own, "despesa")

\* C7: the bounds of both queries of the month/year selector are the first
\* and the last calendar day of the selected month, in every time zone.
MonthRangeExact ==
    variant = "pages" =>
        \A q \in queries :
            LET y == ParseInt(calls[q.call].year)
                m == ParseInt(calls[q.call].month) + 1
            IN /\ q.gte = <<y, m, 1>>
               /\ q.lte = << <<y, m, DaysInMonth(y, m)>> >>

\* C8, as claimed: after a successful fetch returning T, transacoesRecentes
\* has length min(5, |T|) and is a prefix of T, T being in descending order
\* of quando.
RecentIsPrefixByDate ==
    (variant = "legacy" /\ shownFor.call # 0) =>
        /\ Len(stats.transacoesRecentes) = Min(5, Len(shownFor.tx))
        /\ IsPrefix(stats.transacoesRecentes, shownFor.tx)
        /\ \A i, j \in DOMAIN shownFor.tx :
              i < j => IsoLeq(shownFor.tx[j].quando, shownFor.tx[i].quando)

\* C8, as amended: after a successful fetch returning T, transacoesRecentes
\* has length min(5, |T|) and is a prefix of T, T being in descending order
\* of created_at.
RecentIsPrefixByCreation ==
    (variant = "legacy" /\ shownFor.call # 0) =>
        /\ Len(stats.transacoesRecentes) = Min(5, Len(shownFor.tx))
        /\ IsPrefix(stats.transacoesRecentes, shownFor.tx)
        /\ \A i, j \in DOMAIN shownFor.tx :
              i < j => shownFor.tx[i].created_at >= shownFor.tx[j].created_at

\* C8, witness: a fetch returned more than five transactions, not all of the
\* same date.
RecentWitness ==
    /\ variant = "legacy"
    /\ shownFor.call # 0
    /\ Len(shownFor.tx) > 5
    /\ Len(stats.transacoesRecentes) = 5
    /\ \E i, j \in DOMAIN shownFor.tx : shownFor.tx[i].quando # shownFor.tx[j].quando

LoadingTracksInFlight == InFlight # {} => loading

=============================================================================
